---- MODULE Spec2Model ----
(***************************************************************************)
(* Blog title generator: the resilient fetch and the main-content          *)
(* extraction of app.py, app2.py, app3.py and app4.py, and the lazily      *)
(* loaded pipeline of app2.py over the calls made on one instance.         *)
(*                                                                         *)
(* A text is a run-length encoded string: a sequence of runs [k, n, o],    *)
(* k the kind of character ("c" non-whitespace, "sp" U+0020, "ws" any      *)
(* other whitespace such as \n or \t), n >= 1 the number of characters and *)
(* o the node of the page the characters come from (0: none).             *)
(*                                                                         *)
(* A page is its parsed tree in document order: a sequence of nodes        *)
(* [tag, cls, id, parent, text]; parent is the index of the parent         *)
(* (0: the BeautifulSoup object), tag "#text" marks a NavigableString.     *)
(* cls and id hold the keywords the attribute's value contains.            *)
(***************************************************************************)
EXTENDS Integers, Sequences, FiniteSets, TLC

VARIABLES
    variant,    \* the program run: "app", "app2", "app3" or "app4"
    server,     \* the outcomes the server of the url may produce
    page,       \* the tree of the markup the server sends as a body
    direct,     \* app.py called with is_url=False: <<input_data>>, else <<>>
    pc,         \* position in generate_titles_from_url
    responses,  \* outcome of every transport attempt of session.get so far
    waits,      \* the sleep before every retry so far
    gone,       \* the nodes decomposed out of the soup
    selIdx,     \* index of the selector the loop is at
    block,      \* main_content_block: {} None, {0} the soup, {j} node j
    text,       \* the text of the extraction
    received,   \* what the extractor returned to its caller
    content,    \* the caller's content
    forwarded,  \* what was handed to the title backend
    caught,     \* the exception the except clause of the fetch is handling
    raised,     \* the exceptions that left generate_titles_from_url
    trace,      \* the stages entered, in order
    generator_pipeline, \* self._generator_pipeline: {} None, {n} the Pipeline
                        \* object the n-th call of pipeline() returned
    loads,      \* the calls of pipeline() on this instance: [call, result]
    calls,      \* the calls of generate_titles_from_url so far
    served      \* the title generations so far: [call, handle]

\* the inputs of the run
env == <<variant, server, page, direct>>

\* what the generator instance keeps from one call to the next, and its history
instance == <<generator_pipeline, loads, calls, served>>

vars == <<env, pc, responses, waits, caught, gone, selIdx, block,
          text, received, content, forwarded, raised, trace, instance>>

----------------------------------------------------------------------------
(* Bounds of the model *)

\* longest run of whitespace inside a text node of a page
MaxWsRun == 2
\* deepest nesting of a paragraph under a stripped tag
MaxNest == 2
\* most calls of generate_titles_from_url on one instance
MaxCalls == 3

----------------------------------------------------------------------------
(* Program constants *)

RetryTotal == 3
BackoffFactor == 1
MIN_CONTENT_LENGTH == 100
RobustLength == 500
MAX_MODEL_INPUT_LENGTH == 512
MAX_LLM_INPUT_LENGTH == 8000
AppInputLimit == 1000

Variants == {"app", "app2", "app3", "app4"}

StatusForcelist == {429, 500, 502, 503, 504}

\* urllib3's Retry.RETRY_AFTER_STATUS_CODES
RetryAfterStatusCodes == {413, 429, 503}

----------------------------------------------------------------------------
(* Texts *)

Run(k, n) == [k |-> k, n |-> n, o |-> 0]
Space == <<Run("sp", 1)>>
IsWs(r) == r.k \in {"sp", "ws"}

RECURSIVE StrLen(_)
StrLen(s) == IF s = <<>> THEN 0 ELSE Head(s).n + StrLen(Tail(s))

RECURSIVE LStrip(_)
LStrip(s) == IF s = <<>> THEN <<>>
             ELSE IF IsWs(Head(s)) THEN LStrip(Tail(s)) ELSE s

RECURSIVE RStrip(_)
RStrip(s) == IF s = <<>> THEN <<>>
             ELSE IF IsWs(s[Len(s)]) THEN RStrip(SubSeq(s, 1, Len(s) - 1)) ELSE s

\* str.strip()
Strip(s) == RStrip(LStrip(s))

\* re.sub(r"\s+", " ", text)
RECURSIVE ReSubWs(_)
ReSubWs(s) == IF s = <<>> THEN <<>>
              ELSE IF IsWs(Head(s)) THEN Space \o ReSubWs(LStrip(s))
              ELSE <<Head(s)>> \o ReSubWs(Tail(s))

\* sep.join(parts)
RECURSIVE Join(_, _)
Join(parts, sep) == IF parts = <<>> THEN <<>>
                    ELSE IF Len(parts) = 1 THEN parts[1]
                    ELSE parts[1] \o sep \o Join(Tail(parts), sep)

\* text[:n]
RECURSIVE Truncate(_, _)
Truncate(s, n) == IF s = <<>> \/ n <= 0 THEN <<>>
                  ELSE IF Head(s).n <= n
                       THEN <<Head(s)>> \o Truncate(Tail(s), n - Head(s).n)
                       ELSE <<[Head(s) EXCEPT !.n = n]>>

Stamp(s, j) == [i \in DOMAIN s |-> [s[i] EXCEPT !.o = j]]

----------------------------------------------------------------------------
(* The parsed tree *)

El(tag, cls, id, parent) ==
    [tag |-> tag, cls |-> cls, id |-> id, parent |-> parent, text |-> <<>>]
Tx(t, parent) ==
    [tag |-> "#text", cls |-> {}, id |-> {}, parent |-> parent, text |-> t]

Soup == {0}

\* node j lies in the subtree below a (a = 0: below the soup)
RECURSIVE IsUnder(_, _, _)
IsUnder(doc, j, a) ==
    LET p == doc[j].parent
    IN  p = a \/ (p # 0 /\ IsUnder(doc, p, a))

Min(S) == CHOOSE x \in S : \A y \in S : x <= y

\* the members of S in document order
RECURSIVE InOrder(_)
InOrder(S) == IF S = {} THEN <<>> ELSE <<Min(S)>> \o InOrder(S \ {Min(S)})

----------------------------------------------------------------------------
(* What differs between the four programs *)

\* the retries the transport may make: Retry(total=3) of the session;
\* requests.get of app.py goes through the default adapter, which makes none
RetryBudget(v) == IF v = "app" THEN 0 ELSE RetryTotal

\* the list of app2/app3 without "form"
StripTagsWithoutForm(v) ==
    IF v = "app" THEN {"script", "style", "noscript"}
    ELSE IF v = "app4" THEN {"script", "style", "header", "footer", "nav"}
    ELSE {"script", "style", "noscript", "header", "footer", "nav", "aside"}

\* the tags whose subtrees are decomposed
StripTags(v) ==
    IF v = "app" THEN {"script", "style", "noscript"}
    ELSE IF v = "app4" THEN {"script", "style", "header", "footer", "nav"}
    ELSE {"script", "style", "noscript", "header", "footer", "nav", "aside", "form"}

\* whether the selector heuristic runs
UsesSelectors(v) == v \in {"app2", "app3"}

\* the list with every heading level
ContentTagsEveryHeading(v) ==
    IF v = "app" THEN {"p"}
    ELSE {"p", "h1", "h2", "h3", "h4", "h5", "h6", "li"}

\* the tags find_all collects text from
ContentTags(v) ==
    IF v = "app" THEN {"p"}
    ELSE IF v = "app4" THEN {"p", "h1", "h2", "h3"}
    ELSE {"p", "h1", "h2", "h3", "h4", "li"}

\* the separator of get_text inside one collected tag
TagSeparator(v) == IF v = "app4" THEN <<>> ELSE Space

\* app2/app3 drop the empty parts ("if part:"), app and app4 keep them
DropsEmptyParts(v) == v \in {"app2", "app3"}

\* the extractor itself checks the length (app.py leaves it to its caller)
ExtractorChecksLength(v) == v # "app"

\* the slice of the content handed to the title backend
InputLimit(v) ==
    IF v = "app" THEN AppInputLimit
    ELSE IF v = "app2" THEN MAX_MODEL_INPUT_LENGTH
    ELSE MAX_LLM_INPUT_LENGTH

\* the title backend is the lazily loaded pipeline of the instance (app3 creates
\* its LLM in __init__, app.py its generator at import)
UsesPipeline(v) == v = "app2"

\* the class of the exception the except clause raises for a failed fetch
FetchErrorClass(v) ==
    IF v = "app" THEN "ValueError"
    ELSE IF v = "app4" THEN "RuntimeError"
    ELSE "RequestException"

----------------------------------------------------------------------------
(* Extraction *)

\* the selectors with <article> tried before <main>
MainContentSelectorsSwapped == <<
    [tag |-> "div",     attr |-> "class", kw |-> "article"],
    [tag |-> "div",     attr |-> "class", kw |-> "post"],
    [tag |-> "article", attr |-> "",      kw |-> ""],
    [tag |-> "main",    attr |-> "",      kw |-> ""],
    [tag |-> "div",     attr |-> "id",    kw |-> "content"],
    [tag |-> "div",     attr |-> "class", kw |-> "content"] >>

MainContentSelectors == <<
    [tag |-> "div",     attr |-> "class", kw |-> "article"],
    [tag |-> "div",     attr |-> "class", kw |-> "post"],
    [tag |-> "main",    attr |-> "",      kw |-> ""],
    [tag |-> "article", attr |-> "",      kw |-> ""],
    [tag |-> "div",     attr |-> "id",    kw |-> "content"],
    [tag |-> "div",     attr |-> "class", kw |-> "content"] >>

\* soupsieve: tag name, and [attr*="kw"]: the value contains kw
Matches(n, sel) ==
    /\ n.tag = sel.tag
    /\ sel.attr = "class" => sel.kw \in n.cls
    /\ sel.attr = "id" => sel.kw \in n.id

Nodes(doc) == 1..Len(doc)

\* soup([...]) then tag.decompose(): every subtree rooted at one of the tags
Decomposed(doc, tags) ==
    {j \in Nodes(doc) :
        \/ doc[j].tag \in tags
        \/ \E a \in Nodes(doc) : doc[a].tag \in tags /\ IsUnder(doc, j, a)}

\* the nodes of the subtree below node i (below the soup for i = 0) still in the tree
Below(doc, dead, i) == {j \in Nodes(doc) \ dead : IsUnder(doc, j, i)}

\* soup.select_one(selector): the first match in document order, {} for None
SelectOne(doc, dead, sel) ==
    LET m == {j \in Below(doc, dead, 0) : Matches(doc[j], sel)}
    IN  IF m = {} THEN {} ELSE {Min(m)}

\* the strings get_text joins: each descendant string, stripped, the empty ones skipped
RECURSIVE StrippedStrings(_, _)
StrippedStrings(doc, js) ==
    IF js = <<>> THEN <<>>
    ELSE LET s == Strip(Stamp(doc[Head(js)].text, Head(js)))
         IN  (IF s = <<>> THEN <<>> ELSE <<s>>) \o StrippedStrings(doc, Tail(js))

\* tag.get_text(separator=sep, strip=True)
GetText(doc, dead, i, sep) ==
    Join(StrippedStrings(doc,
            InOrder({j \in Below(doc, dead, i) : doc[j].tag = "#text"})), sep)

\* block.find_all(names): the descendants with one of the names, in document order
FindAll(doc, dead, i, names) ==
    InOrder({j \in Below(doc, dead, i) : doc[j].tag \in names})

\* the fallback that never looks for the body
AlwaysSoup(doc, dead) == Soup

\* soup.body if soup.body else soup
BodyOrSoup(doc, dead) ==
    LET b == {j \in Below(doc, dead, 0) : doc[j].tag = "body"}
    IN  IF b = {} THEN Soup ELSE {Min(b)}

\* the threshold met at exactly 500 characters
IsRobustAtThreshold(t) == StrLen(t) >= RobustLength

\* len(text) > 500
IsRobust(t) == StrLen(t) > RobustLength

\* the minimum refused at exactly 100 characters
TooShortAtMinimum(t) == StrLen(t) <= MIN_CONTENT_LENGTH

\* len(text) < MIN_CONTENT_LENGTH
TooShort(t) == StrLen(t) < MIN_CONTENT_LENGTH

RECURSIVE PartsOf(_, _, _, _)
PartsOf(v, doc, dead, tags) ==
    IF tags = <<>> THEN <<>>
    ELSE LET part == GetText(doc, dead, Head(tags), TagSeparator(v))
         IN  (IF part = <<>> /\ DropsEmptyParts(v) THEN <<>> ELSE <<part>>)
             \o PartsOf(v, doc, dead, Tail(tags))

\* the clean-up without the re.sub
StripOnly(t) == Strip(t)

\* text = " ".join(text_parts); text = re.sub(r"\s+", " ", text).strip()
Normalize(t) == Strip(ReSubWs(t))

\* the text of the chosen block
CollectText(v, doc, dead, i) ==
    Normalize(Join(PartsOf(v, doc, dead, FindAll(doc, dead, i, ContentTags(v))), Space))

----------------------------------------------------------------------------
(* The pages and servers the model runs on *)

C(n) == <<Run("c", n)>>

\* a text with one inner run of k whitespace characters
Inner(a, kind, k, b) == <<Run("c", a), Run(kind, k), Run("c", b)>>

\* a text padded on both sides
Padded(n, k) == <<Run("sp", 1), Run("c", n), Run("ws", k)>>

Kind(tag, cls, id) == [tag |-> tag, cls |-> cls, id |-> id]

Containers == {
    Kind("div", {"article"}, {}), Kind("div", {"post"}, {}),
    Kind("main", {}, {}), Kind("article", {}, {}),
    Kind("div", {}, {"content"}), Kind("div", {"content"}, {}),
    Kind("section", {}, {}) }

Body(on) == IF on THEN <<El("body", {}, {}, 0)>> ELSE <<>>

\* two containers, each holding one paragraph; the second beside or inside the first
TwoBlocks(k1, t1, k2, t2, nested, hasBody) ==
    LET b == Len(Body(hasBody))
    IN  Body(hasBody) \o
        << El(k1.tag, k1.cls, k1.id, b), El("p", {}, {}, b + 1), Tx(t1, b + 2),
           El(k2.tag, k2.cls, k2.id, IF nested THEN b + 1 ELSE b),
           El("p", {}, {}, b + 4), Tx(t2, b + 5) >>

BlockTexts ==
    {C(500), C(501), C(600), Padded(500, 1)}
    \cup {Inner(250, "ws", k, 249) : k \in 1..MaxWsRun}

SelectorPages ==
    {TwoBlocks(k1, t1, k2, t2, n, hb) :
        k1 \in Containers, k2 \in Containers, t1 \in BlockTexts, t2 \in BlockTexts,
        n \in BOOLEAN, hb \in BOOLEAN}

\* a chain of elements, each the only child of the one before, ending in a text
RECURSIVE Chain(_, _, _)
Chain(tags, parent, t) ==
    IF tags = <<>> THEN <<Tx(t, parent)>>
    ELSE <<El(Head(tags), {}, {}, parent)>> \o Chain(Tail(tags), parent + 1, t)

RECURSIVE Divs(_)
Divs(n) == IF n <= 0 THEN <<>> ELSE <<"div">> \o Divs(n - 1)

\* a text d elements below a container, the outermost of them w, beside a paragraph
Wrapped(k, w, d, tx, t, hasBody) ==
    LET b    == Len(Body(hasBody))
        c    == IF k = "none" THEN <<>> ELSE <<El(k, {}, {}, b)>>
        top  == b + Len(c)
        tags == IF d = 1 THEN <<w>> ELSE <<w>> \o Divs(d - 2) \o <<"p">>
        in   == Chain(tags, top, tx)
    IN  Body(hasBody) \o c \o in
        \o <<El("p", {}, {}, top), Tx(t, top + Len(in) + 1)>>

Wrappers == {"script", "style", "noscript", "header", "footer", "nav", "aside",
             "form", "span"}

WrappedPages ==
    {Wrapped(k, w, d, C(600), t, hb) :
        k \in {"none", "main"}, w \in Wrappers, d \in 1..MaxNest,
        t \in {C(99), C(100), C(600)}, hb \in BOOLEAN}

ShortTexts ==
    {C(99), C(100), <<>>}
    \cup {Inner(50, "ws", k, 49) : k \in 1..MaxWsRun}
    \cup {Inner(49, "sp", k, 49) : k \in 1..MaxWsRun}
    \cup {Padded(99, k) : k \in 1..MaxWsRun}
    \cup {<<Run("ws", k)>> : k \in 1..MaxWsRun}

\* two content-bearing tags in a body
TwoTags(g1, t1, g2, t2) ==
    << El("body", {}, {}, 0), El(g1, {}, {}, 1), Tx(t1, 2),
       El(g2, {}, {}, 1), Tx(t2, 4) >>

TagPages ==
    {TwoTags(g1, t1, g2, t2) :
        g1 \in {"p", "li"}, g2 \in {"p", "h4", "span"},
        t1 \in ShortTexts, t2 \in ShortTexts}

\* a <main> with two elements, each holding one text; the second beside the first
\* or inside it, after its text
TagsInBlock(g1, t1, g2, t2, nested) ==
    << El("main", {}, {}, 0), El(g1, {}, {}, 1), Tx(t1, 2),
       El(g2, {}, {}, IF nested THEN 2 ELSE 1), Tx(t2, 4) >>

ContentTexts == {C(60), C(600), Inner(30, "ws", MaxWsRun, 30)}

ContentPages ==
    {TagsInBlock(g1, t1, g2, t2, n) :
        g1 \in {"p", "li", "h1", "h5", "div"},
        g2 \in {"p", "h2", "h3", "h4", "h6", "div"},
        t1 \in ContentTexts, t2 \in ContentTexts, n \in BOOLEAN}

\* an outcome of one attempt: a response with its status and the seconds of its
\* Retry-After header (0: no such header), or a transport error
St(code) == [status |-> code, err |-> "", ra |-> 0]
StRetryAfter(code, secs) == [status |-> code, err |-> "", ra |-> secs]
Er(name) == [status |-> 0, err |-> name, ra |-> 0]

\* 300 stands for a 3xx that requests does not follow (no Location header, or a
\* status outside 301, 302, 303, 307, 308) and that, unlike 304, has a body
Outcomes == {St(200), St(300), St(404), St(413), StRetryAfter(413, 5), St(429),
             St(501), St(503), Er("ConnectionError"), Er("ReadTimeout")}

Healthy == {St(200)}

\* what a call of transformers.pipeline(...) does: it returns a Pipeline object
\* (always truthy: the class defines neither __bool__ nor __len__) or raises,
\* OSError when the model cannot be found or read
LoadOutcomes == {"loaded", "OSError"}

\* the urls of the calls after the first: one that answers, one that is not found
LaterServers == {Healthy, {St(404)}}
LaterPages == {TwoTags("p", C(99), "p", <<>>), TwoTags("p", C(100), "p", <<>>)}

\* the input_data given to app.py with is_url=False
DirectInputs == ShortTexts \cup {C(1200)}

\* the pages served by a server that may fail
FewPages == {TwoTags("p", C(99), "p", <<>>), TwoTags("p", C(100), "p", <<>>),
             TwoBlocks(Kind("main", {}, {}), C(501), Kind("article", {}, {}), C(600),
                       FALSE, TRUE)}

----------------------------------------------------------------------------
(* The transport: session.get through HTTPAdapter(max_retries=Retry(...)) *)

Last(q) == q[Len(q)]

\* every error status retried
IsRetryableAnyError(v, o) ==
    IF o.err # "" THEN TRUE ELSE v # "app" /\ o.status >= 400

\* an outcome the transport answers with another attempt while the budget lasts:
\* a connection or read error of the idempotent GET, or a status of the forcelist
\* (requests.get of app.py mounts no forcelist)
IsRetryable(v, o) ==
    IF o.err # "" THEN TRUE ELSE v # "app" /\ o.status \in StatusForcelist

\* the budget counted in attempts instead of retries
ExhaustedByAttempts(v, n) == n >= RetryBudget(v)

\* Retry.increment: the budget is spent once more outcomes failed than total
Exhausted(v, n) == n > RetryBudget(v)

\* Retry.is_retry and the error branch of urlopen, on the n-th outcome: besides the
\* above, while retries are left (self.total is truthy), a response that carries
\* Retry-After and has a status of Retry.RETRY_AFTER_STATUS_CODES
\* (respect_retry_after_header is left at its default)
IsRetry(v, o, n) ==
    \/ IsRetryable(v, o)
    \/ /\ ~Exhausted(v, n)
       /\ o.err = "" /\ o.ra > 0 /\ o.status \in RetryAfterStatusCodes

RECURSIVE Pow2(_)
Pow2(n) == IF n <= 0 THEN 1 ELSE 2 * Pow2(n - 1)

\* a backoff that already delays the first retry
BackoffTimeFromFirst(n) == BackoffFactor * Pow2(n - 1)

\* Retry.get_backoff_time after n consecutive failures
BackoffTime(n) == IF n <= 1 THEN 0 ELSE BackoffFactor * Pow2(n - 1)

\* Retry.sleep(response): the Retry-After of the response, else the backoff
SleepTime(o, n) == IF o.ra > 0 THEN o.ra ELSE BackoffTime(n)

\* the exception session.get raises when it gives up on outcome o
TransportError(v, o) ==
    IF o.err = "" THEN "RetryError"
    ELSE IF o.err = "ReadTimeout" /\ RetryBudget(v) > 0 THEN "ConnectionError"
    ELSE o.err

\* response.raise_for_status()
IsErrorStatus(code) == 400 <= code /\ code < 600

Exception(cls, cause) == [cls |-> cls, cause |-> cause]

----------------------------------------------------------------------------
Init ==
    /\ variant \in Variants
    /\ \/ server = Outcomes /\ page \in FewPages /\ direct = <<>>
       \/ /\ server = Healthy /\ direct = <<>>
          /\ page \in WrappedPages \cup TagPages \cup ContentPages
       \/ /\ server = Healthy /\ page \in SelectorPages /\ direct = <<>>
          /\ UsesSelectors(variant)
       \/ /\ server = {} /\ page = <<>> /\ direct \in {<<t>> : t \in DirectInputs}
          /\ variant = "app"
    /\ pc = "start"
    /\ content = <<>>
    /\ responses = <<>>
    /\ waits = <<>>
    /\ caught = ""
    /\ gone = {}
    /\ selIdx = 1
    /\ block = {}
    /\ text = <<>>
    /\ received = <<>>
    /\ forwarded = <<>>
    /\ raised = <<>>
    /\ trace = <<>>
    /\ generator_pipeline = {}
    /\ loads = <<>>
    /\ calls = 0
    /\ served = <<>>

\* generate_titles_from_url enters _extract_text_from_url;
\* blog_title_generator does so if is_url, else content = input_data
Start ==
    /\ pc = "start"
    /\ IF direct = <<>>
       THEN pc' = "get" /\ trace' = Append(trace, "fetch") /\ content' = content
       ELSE pc' = "caller" /\ trace' = trace /\ content' = direct[1]
    /\ calls' = calls + 1
    /\ UNCHANGED <<generator_pipeline, loads, served>>
    /\ UNCHANGED <<env, responses, waits, caught, gone, selIdx,
                   block, text, received, forwarded, raised>>

\* one attempt of the transport
Send ==
    /\ pc = "get"
    /\ \E o \in server : responses' = Append(responses, o)
    /\ pc' = "transport"
    /\ UNCHANGED <<instance, env, waits, caught, gone, selIdx, block, text,
                   received, content, forwarded, raised, trace>>

\* a retry that lets the failed attempt's exception out
RetryLeaks ==
    /\ pc = "transport"
    /\ IsRetry(variant, Last(responses), Len(responses))
    /\ ~Exhausted(variant, Len(responses))
    /\ waits' = Append(waits, SleepTime(Last(responses), Len(responses)))
    /\ raised' = Append(raised, Exception(FetchErrorClass(variant),
                                         TransportError(variant, Last(responses))))
    /\ pc' = "get"
    /\ UNCHANGED <<instance, env, responses, caught, gone, selIdx, block,
                   text, received, content, forwarded, trace>>

\* the transport sleeps and tries again
Retry ==
    /\ pc = "transport"
    /\ IsRetry(variant, Last(responses), Len(responses))
    /\ ~Exhausted(variant, Len(responses))
    /\ waits' = Append(waits, SleepTime(Last(responses), Len(responses)))
    /\ pc' = "get"
    /\ UNCHANGED <<instance, env, responses, caught, gone, selIdx, block,
                   text, received, content, forwarded, raised, trace>>

\* the budget is spent: session.get raises
GiveUp ==
    /\ pc = "transport"
    /\ IsRetry(variant, Last(responses), Len(responses))
    /\ Exhausted(variant, Len(responses))
    /\ caught' = TransportError(variant, Last(responses))
    /\ pc' = "except"
    /\ UNCHANGED <<instance, env, responses, waits, gone, selIdx, block,
                   text, received, content, forwarded, raised, trace>>

\* session.get returns a response; response.raise_for_status()
RaiseForStatus ==
    /\ pc = "transport"
    /\ ~IsRetry(variant, Last(responses), Len(responses))
    /\ IF IsErrorStatus(Last(responses).status)
       THEN caught' = "HTTPError" /\ pc' = "except"
       ELSE caught' = caught /\ pc' = "parse"
    /\ UNCHANGED <<instance, env, responses, waits, gone, selIdx, block,
                   text, received, content, forwarded, raised, trace>>

\* except ... as e: raise <class>(f"Failed to fetch URL ...: {e}")
FetchFailed ==
    /\ pc = "except"
    /\ raised' = Append(raised, Exception(FetchErrorClass(variant), caught))
    /\ caught' = ""
    /\ pc' = "failed"
    /\ UNCHANGED <<instance, env, responses, waits, gone, selIdx, block,
                   text, received, content, forwarded, trace>>

\* soup = BeautifulSoup(response.text, parser); the decompose loop
ParseAndStrip ==
    /\ pc = "parse"
    /\ gone' = Decomposed(page, StripTags(variant))
    /\ block' = IF UsesSelectors(variant) THEN {} ELSE Soup
    /\ pc' = IF UsesSelectors(variant) THEN "select" ELSE "collect"
    /\ trace' = Append(trace, "extract")
    /\ UNCHANGED <<instance, env, responses, waits, caught, selIdx, text,
                   received, content, forwarded, raised>>

\* one turn of "for selector in main_content_selectors"
SelectStep ==
    /\ pc = "select"
    /\ selIdx <= Len(MainContentSelectors)
    /\ LET found == SelectOne(page, gone, MainContentSelectors[selIdx])
           t     == IF found = {} THEN text
                    ELSE GetText(page, gone, Min(found), Space)
       IN  /\ text' = t
           /\ IF found # {} /\ IsRobust(t)
              THEN block' = found /\ pc' = "fallback" /\ selIdx' = selIdx
              ELSE block' = block /\ pc' = pc /\ selIdx' = selIdx + 1
    /\ UNCHANGED <<instance, env, responses, waits, caught, gone, received, content,
                   forwarded, raised, trace>>

\* the loop ran out of selectors
SelectEnd ==
    /\ pc = "select"
    /\ selIdx > Len(MainContentSelectors)
    /\ pc' = "fallback"
    /\ UNCHANGED <<instance, env, responses, waits, caught, gone, selIdx,
                   block, text, received, content, forwarded, raised, trace>>

\* if main_content_block is None: main_content_block = soup.body if soup.body else soup
Fallback ==
    /\ pc = "fallback"
    /\ block' = IF block = {} THEN BodyOrSoup(page, gone) ELSE block
    /\ pc' = "collect"
    /\ UNCHANGED <<instance, env, responses, waits, caught, gone, selIdx,
                   text, received, content, forwarded, raised, trace>>

\* the find_all loop, the join and the whitespace clean-up
Collect ==
    /\ pc = "collect"
    /\ text' = CollectText(variant, page, gone, Min(block))
    /\ pc' = "length"
    /\ UNCHANGED <<instance, env, responses, waits, caught, gone, selIdx,
                   block, received, content, forwarded, raised, trace>>

\* a length check that fetches the url again when the text is too short
CheckLengthRefetch ==
    /\ pc = "length"
    /\ IF ExtractorChecksLength(variant) /\ TooShort(text)
       THEN /\ Len(trace) < 4
            /\ pc' = "start"
            /\ received' = received
            /\ content' = content
       ELSE /\ received' = Append(received, text)
            /\ content' = text
            /\ pc' = IF variant = "app" THEN "caller" ELSE "generate"
    /\ UNCHANGED <<instance, env, responses, waits, caught, gone, selIdx,
                   block, text, forwarded, raised, trace>>

\* if len(text) < self.MIN_CONTENT_LENGTH: raise ValueError; return text
CheckLength ==
    /\ pc = "length"
    /\ IF ExtractorChecksLength(variant) /\ TooShort(text)
       THEN /\ raised' = Append(raised, Exception("ValueError", ""))
            /\ pc' = "failed"
            /\ received' = received
            /\ content' = content
       ELSE /\ received' = Append(received, text)
            /\ content' = text
            /\ pc' = IF variant = "app" THEN "caller" ELSE "generate"
            /\ raised' = raised
    /\ UNCHANGED <<instance, env, responses, waits, caught, gone, selIdx,
                   block, text, forwarded, trace>>

\* blog_title_generator of app.py: if len(content) < 100: raise ValueError
CallerCheck ==
    /\ pc = "caller"
    /\ IF TooShort(content)
       THEN raised' = Append(raised, Exception("ValueError", "")) /\ pc' = "failed"
       ELSE raised' = raised /\ pc' = "generate"
    /\ UNCHANGED <<instance, env, responses, waits, caught, gone, selIdx,
                   block, text, received, content, forwarded, trace>>

\* the property that loads the pipeline whether or not there is one already
LoadPipelineAlways ==
    /\ pc = "generate"
    /\ UsesPipeline(variant)
    /\ \E r \in LoadOutcomes :
         /\ loads' = Append(loads, [call |-> calls, result |-> r])
         /\ IF r = "loaded"
            THEN /\ generator_pipeline' = {Len(loads) + 1}
                 /\ UNCHANGED <<pc, raised, trace>>
            ELSE /\ generator_pipeline' = generator_pipeline
                 /\ raised' = Append(raised, Exception("RuntimeError", r))
                 /\ trace' = Append(trace, "backend")
                 /\ pc' = "failed"
    /\ UNCHANGED <<env, responses, waits, caught, gone, selIdx, block,
                   text, received, content, forwarded, calls, served>>

\* the generator_pipeline property of app2 while self._generator_pipeline is None:
\* pipeline(...) returns a Pipeline object, which is kept, or raises, and then the
\* assignment never happens and RuntimeError leaves _generate_titles
LoadPipeline ==
    /\ pc = "generate"
    /\ UsesPipeline(variant)
    /\ generator_pipeline = {}
    /\ \E r \in LoadOutcomes :
         /\ loads' = Append(loads, [call |-> calls, result |-> r])
         /\ IF r = "loaded"
            THEN /\ generator_pipeline' = {Len(loads) + 1}
                 /\ UNCHANGED <<pc, raised, trace>>
            ELSE /\ generator_pipeline' = generator_pipeline
                 /\ raised' = Append(raised, Exception("RuntimeError", r))
                 /\ trace' = Append(trace, "backend")
                 /\ pc' = "failed"
    /\ UNCHANGED <<env, responses, waits, caught, gone, selIdx, block,
                   text, received, content, forwarded, calls, served>>

\* the title backend is called on content[:limit]; in app2 it is the pipeline the
\* property returns
Generate ==
    /\ pc = "generate"
    /\ UsesPipeline(variant) => generator_pipeline # {}
    /\ forwarded' = Append(forwarded, Truncate(content, InputLimit(variant)))
    /\ served' = IF UsesPipeline(variant)
                 THEN Append(served, [call |-> calls, handle |-> generator_pipeline])
                 ELSE served
    /\ trace' = Append(trace, "backend")
    /\ pc' = "done"
    /\ UNCHANGED <<env, responses, waits, caught, gone, selIdx,
                   block, text, received, content, raised,
                   generator_pipeline, loads, calls>>

\* the call is over; generate_titles_from_url is called again on the instance
\* of app2, with another url
NextCall ==
    /\ pc \in {"done", "failed"}
    /\ UsesPipeline(variant)
    /\ calls < MaxCalls
    /\ server' \in LaterServers
    /\ page' \in LaterPages
    /\ pc' = "start"
    /\ responses' = <<>>
    /\ waits' = <<>>
    /\ caught' = ""
    /\ gone' = {}
    /\ selIdx' = 1
    /\ block' = {}
    /\ text' = <<>>
    /\ received' = <<>>
    /\ content' = <<>>
    /\ forwarded' = <<>>
    /\ raised' = <<>>
    /\ trace' = <<>>
    /\ UNCHANGED <<variant, direct, instance>>

Next ==
    \/ Start
    \/ Send
    \/ Retry
    \/ GiveUp
    \/ RaiseForStatus
    \/ FetchFailed
    \/ ParseAndStrip
    \/ SelectStep
    \/ SelectEnd
    \/ Fallback
    \/ Collect
    \/ CheckLength
    \/ CallerCheck
    \/ LoadPipeline
    \/ Generate
    \/ NextCall

Spec == Init /\ [][Next]_vars

----------------------------------------------------------------------------
(* Vocabulary of the properties *)

\* the nodes left in the tree after the decompose loop
Live == Nodes(page) \ gone

\* the six selectors in the order the specification lists them, as tests on a node
Claimed(n, i) ==
    CASE i = 1 -> n.tag = "div" /\ "article" \in n.cls
      [] i = 2 -> n.tag = "div" /\ "post" \in n.cls
      [] i = 3 -> n.tag = "main"
      [] i = 4 -> n.tag = "article"
      [] i = 5 -> n.tag = "div" /\ "content" \in n.id
      [] i = 6 -> n.tag = "div" /\ "content" \in n.cls

\* the first node in document order the i-th selector matches, 0 when none
FirstMatch(i) ==
    LET m == {j \in Live : Claimed(page[j], i)}
    IN  IF m = {} THEN 0 ELSE CHOOSE j \in m : \A k \in m : j <= k

\* the flattened text of node j: its strings, each stripped, joined by one space
Flat(j) == GetText(page, gone, j, Space)

\* the i-th selector has a first match with more than 500 characters of flattened text
Qualifies(i) == FirstMatch(i) # 0 /\ StrLen(Flat(FirstMatch(i))) > 500

Qualifying == {i \in 1..6 : Qualifies(i)}

\* the selector loop is over
AfterLoop == UsesSelectors(variant) /\ pc \in {"fallback", "collect", "length", "generate", "done"}

\* the content block is settled
AfterFallback == UsesSelectors(variant) /\ pc \in {"collect", "length", "generate", "done"}

----------------------------------------------------------------------------
(* C1: the chosen content block is the first match of the earliest selector,  *)
(* in the order div[class*=article], div[class*=post], main, article,         *)
(* div[id*=content], div[class*=content], whose first match in document order *)
(* has more than 500 characters of flattened text; a later selector's match   *)
(* is never chosen when an earlier selector qualifies.                        *)
C1_EarliestQualifyingSelectorWins ==
    (AfterLoop /\ Qualifying # {}) =>
        LET i == CHOOSE q \in Qualifying : \A r \in Qualifying : q <= r
        IN  block = {FirstMatch(i)}

\* <main> is chosen although the <article> after it holds more text
C1_Witness ==
    /\ AfterLoop
    /\ ~Qualifies(1) /\ ~Qualifies(2) /\ Qualifies(3) /\ Qualifies(4)
    /\ StrLen(Flat(FirstMatch(4))) > StrLen(Flat(FirstMatch(3)))
    /\ FirstMatch(4) # FirstMatch(3)
    /\ block = {FirstMatch(3)}

----------------------------------------------------------------------------
(* Vocabulary of the fetch properties *)

Attempts == Len(responses)

\* the outcomes the specification calls retryable: a status of
\* {429, 500, 502, 503, 504} or a transient network or timeout error
Transient(o) == o.err # "" \/ o.status \in {429, 500, 502, 503, 504}

AllTransient == \A i \in 1..Attempts : Transient(responses[i])

\* the program fetches through the session with the retry policy
HasRetrySession == variant \in {"app2", "app3", "app4"}

\* session.get gave up after a transient outcome
GaveUp == pc = "except" /\ caught # "HTTPError"

\* the call ended in the fetch
FetchFailure == pc = "failed" /\ trace = <<"fetch">>

(* C2, as stated: with max_attempts the configured Retry(total=3), a fetch    *)
(* whose every response is retryable fails after exactly max_attempts = 3     *)
(* attempts in total.                                                         *)
C2_Original ==
    (HasRetrySession /\ GaveUp) => Attempts = RetryTotal

(* C2, amended: Retry(total=3) is a budget of 3 retries, so of 4 attempts.    *)
(* A retryable outcome is retried at most 3 additional times; if the first    *)
(* non-retryable response is a 2xx at position k <= 4 the fetch succeeds      *)
(* after exactly k attempts; if every response is retryable the fetch fails   *)
(* after exactly 4 attempts; 503, 503, 200 succeeds after exactly 3.          *)
C2_RetriesWithinBudget ==
    HasRetrySession =>
        /\ Attempts <= 4
        /\ Len(waits) <= 3
        /\ \A k \in 1..Attempts :
             ( /\ \A i \in 1..(k - 1) : Transient(responses[i])
               /\ ~Transient(responses[k])
               /\ responses[k].status \in 200..299 ) =>
                  /\ Attempts = k
                  /\ Len(waits) = k - 1
                  /\ pc \notin {"get", "except"}
                  /\ ~FetchFailure
                  /\ pc = "transport" => ENABLED RaiseForStatus /\ ~ENABLED Retry
        /\ (AllTransient /\ pc = "transport") =>
             IF Attempts < 4 THEN ENABLED Retry /\ ~ENABLED GiveUp
             ELSE ENABLED GiveUp /\ ~ENABLED Retry
        /\ (AllTransient /\ (pc = "except" \/ FetchFailure)) =>
             Attempts = 4 /\ Len(waits) = 3

\* 503, 503, 200: the fetch has succeeded after exactly 3 attempts
C2_Witness ==
    /\ HasRetrySession
    /\ responses = <<St(503), St(503), St(200)>>
    /\ pc = "parse"
    /\ Attempts = 3

\* the first response has a 4xx status other than 429
FirstIsClientError ==
    /\ Attempts >= 1
    /\ responses[1].err = ""
    /\ responses[1].status \in (400..499) \ {429}

\* the fetch ended, or is about to end, at its first response
FailsAtOnce ==
    /\ Attempts = 1
    /\ waits = <<>>
    /\ pc \in {"transport", "except", "failed"}
    /\ pc = "transport" => ~ENABLED Retry /\ ENABLED RaiseForStatus
    /\ pc = "failed" => Len(raised) = 1 /\ raised[1].cause = "HTTPError"

(* C3, as stated: a fetch whose first response has a non-retryable 4xx status *)
(* (any 4xx other than 429) fails after exactly 1 attempt, with no retry and  *)
(* no backoff wait.                                                           *)
C3_Original ==
    FirstIsClientError => FailsAtOnce

(* C3, amended: a fetch whose first response has a 4xx status other than 429, *)
(* and is not a 413 that carries a Retry-After header, fails after exactly 1  *)
(* attempt, with no retry and no wait, whatever the remaining retry budget.   *)
C3_ClientErrorFailsAtOnce ==
    (FirstIsClientError /\ ~(responses[1].status = 413 /\ responses[1].ra > 0))
        => FailsAtOnce

\* a 404 ended the call after one attempt although three retries were left
C3_Witness ==
    /\ HasRetrySession
    /\ responses = <<St(404)>>
    /\ pc = "failed"
    /\ waits = <<>>

(* C7, as stated: a failed fetch is returned on the result channel and never  *)
(* raised past the fetch boundary.                                            *)
C7_Original ==
    FetchFailure => raised = <<>>

(* C7, amended: every failed fetch ends in exactly one terminal failure,      *)
(* which is raised as one exception out of the call: RequestException in      *)
(* app2 and app3, RuntimeError in app4, ValueError in app.py. It carries no   *)
(* classified cause, only a message from the underlying exception (HTTPError  *)
(* for 4xx and 5xx alike, RetryError, ConnectionError, ReadTimeout). The      *)
(* failures of the attempts before the last are never visible to the caller.  *)
C7_OneTerminalException ==
    /\ FetchFailure =>
         /\ Len(raised) = 1
         /\ raised[1].cls =
              (CASE variant \in {"app2", "app3"} -> "RequestException"
                 [] variant = "app4" -> "RuntimeError"
                 [] variant = "app" -> "ValueError")
         /\ raised[1].cause \in {"HTTPError", "RetryError", "ConnectionError", "ReadTimeout"}
         /\ Attempts >= 1
         /\ ~Transient(Last(responses)) => raised[1].cause = "HTTPError"
    /\ pc \in {"start", "get", "transport", "except"} => raised = <<>>

\* four attempts answered 503: one RequestException reaches the caller
C7_Witness ==
    /\ FetchFailure
    /\ variant = "app2"
    /\ responses = <<St(503), St(503), St(503), St(503)>>
    /\ raised = <<Exception("RequestException", "RetryError")>>

(* C8: within one call the stages run in the order fetch, extract, title      *)
(* backend, each at most once; a failed fetch or a too-short extraction ends  *)
(* the call with that failure, the backend is not invoked after it, and the   *)
(* url is not fetched again.                                                  *)
C8_StrictPipeline ==
    direct = <<>> =>
    /\ \E n \in 0..3 : trace = SubSeq(<<"fetch", "extract", "backend">>, 1, n)
    /\ Len(raised) <= 1
    /\ raised # <<>> => /\ pc = "failed" /\ forwarded = <<>>
                        /\ Len(trace) <= 2 \/ raised[1].cause \in LoadOutcomes
    /\ pc = "failed" => Len(raised) = 1
    /\ Len(forwarded) <= 1
    /\ Len(trace) >= 2 => /\ ~Transient(Last(responses))
                          /\ ~IsErrorStatus(Last(responses).status)
    /\ Len(trace) = 3 => /\ Len(received) = 1
                         /\ StrLen(received[1]) >= MIN_CONTENT_LENGTH

\* a too-short extraction ended the call: no backend call, no second fetch
C8_Witness ==
    /\ pc = "failed"
    /\ trace = <<"fetch", "extract">>
    /\ raised = <<Exception("ValueError", "")>>
    /\ Attempts = 1
    /\ forwarded = <<>>

----------------------------------------------------------------------------
(* Vocabulary of the extraction properties *)

\* the extractor has checked the length of the text it collected
AfterLengthCheck ==
    \/ pc \in {"caller", "generate", "done"}
    \/ pc = "failed" /\ trace = <<"fetch", "extract">>

\* the nodes of the page in a subtree rooted at one of the tags
Inside(tags) ==
    {j \in Nodes(page) :
        \E a \in Nodes(page) : page[a].tag \in tags /\ (a = j \/ IsUnder(page, j, a))}

\* the nodes whose characters a text holds
Origins(t) == {t[i].o : i \in DOMAIN t} \ {0}

\* every text the program has produced so far
Produced == {text} \cup {received[i] : i \in DOMAIN received}
                   \cup {forwarded[i] : i \in DOMAIN forwarded}

AllStripTags == {"script", "style", "noscript", "nav", "header", "footer", "aside", "form"}

(* C4, as stated: no caller of the extractor, blog_title_generator of app.py  *)
(* included, ever receives or forwards text shorter than the minimum of 100.  *)
C4_Original ==
    /\ \A i \in DOMAIN received : StrLen(received[i]) >= 100
    /\ \A i \in DOMAIN forwarded : StrLen(forwarded[i]) >= 100

(* C4, amended: the extractors of app2, app3 and app4 return the text if and  *)
(* only if its normalized length is >= 100: 99 characters raise ValueError,   *)
(* 100 succeed. extract_text_from_url of app.py returns text of any length to *)
(* blog_title_generator, which raises ValueError itself below 100. No         *)
(* program forwards text shorter than 100 to the title backend.               *)
C4_MinimumLength ==
    /\ (AfterLengthCheck /\ variant # "app") =>
         IF StrLen(text) >= 100
         THEN received = <<text>> /\ raised = <<>>
         ELSE received = <<>> /\ raised = <<Exception("ValueError", "")>>
    /\ (AfterLengthCheck /\ variant = "app" /\ direct = <<>>) => received = <<text>>
    /\ (variant = "app" /\ pc \in {"generate", "done", "failed"} /\ received # <<>>) =>
         IF StrLen(received[1]) >= 100
         THEN raised = <<>>
         ELSE raised = <<Exception("ValueError", "")>> /\ forwarded = <<>>
    /\ \A i \in DOMAIN forwarded : StrLen(forwarded[i]) >= 100
    /\ pc = "done" => Len(forwarded) = 1

\* a text of exactly 100 characters is returned and goes on to the backend
C4_Witness ==
    /\ variant = "app2"
    /\ pc = "done"
    /\ StrLen(text) = 100
    /\ received = <<text>>
    /\ forwarded = <<text>>

\* the page of the worked example: a script and a 600-character paragraph in a body
ExamplePage == Wrapped("none", "script", 1, C(600), C(600), TRUE)

(* C5: when no selector's first match has more than 500 characters of         *)
(* flattened text, the content block is the body element of the document, or  *)
(* the whole document if it has no body; for                                  *)
(* <html><body><script>..</script><p>600 chars</p></body></html> the result   *)
(* is exactly the paragraph's text, with no script text in it.                *)
C5_FallbackToBody ==
    /\ (AfterFallback /\ Qualifying = {}) =>
         LET b == {j \in Live : page[j].tag = "body"}
         IN  IF b = {} THEN block = {0}
             ELSE block = {CHOOSE j \in b : \A k \in b : j <= k}
    /\ (AfterLoop /\ pc = "fallback" /\ Qualifying = {}) => block = {}
    /\ (UsesSelectors(variant) /\ page = ExamplePage /\ AfterLengthCheck) =>
         /\ block = {1}
         /\ text = Stamp(C(600), 5)
         /\ received = <<text>>

\* the example page went through: the body was the block, the paragraph the text
C5_Witness ==
    /\ variant = "app2"
    /\ page = ExamplePage
    /\ pc = "done"
    /\ Qualifying = {}
    /\ block = {1}
    /\ received = <<Stamp(C(600), 5)>>

(* C6, as stated: in app2, app3 and app4 no text of a subtree rooted at a     *)
(* script, style, noscript, nav, header, footer, aside or form element counts *)
(* toward a selector's ranking length or appears in the returned text.        *)
C6_Original ==
    variant \in {"app2", "app3", "app4"} =>
        \A t \in Produced : Origins(t) \cap Inside(AllStripTags) = {}

(* C6, amended: in app2 and app3 no text of a subtree rooted at a script,     *)
(* style, noscript, nav, header, footer, aside or form element, at any depth, *)
(* counts toward a selector's ranking length or appears in the returned text, *)
(* and none of these subtrees is left when the selectors run. app4 removes    *)
(* only the subtrees of script, style, header, footer and nav.                *)
C6_StrippedSubtrees ==
    /\ variant \in {"app2", "app3"} =>
         /\ \A t \in Produced : Origins(t) \cap Inside(AllStripTags) = {}
         /\ pc \in {"select", "fallback", "collect"} => Live \cap Inside(AllStripTags) = {}
         /\ block \cap Inside(AllStripTags) = {}
    /\ variant = "app4" =>
         \A t \in Produced :
            Origins(t) \cap Inside({"script", "style", "header", "footer", "nav"}) = {}

\* a paragraph nested in a <form> inside <main> was left out of ranking and result
C6_Witness ==
    /\ variant = "app2"
    /\ pc = "done"
    /\ \E j \in Inside({"form"}) : page[j].tag = "p" /\ page[page[j].parent].tag = "form"
    /\ \E j \in Inside({"form"}) : page[j].tag = "#text" /\ StrLen(page[j].text) > 500
    /\ FirstMatch(3) # 0 /\ ~Qualifies(3)
    /\ received # <<>>

\* a text with single spaces only, between runs of other characters
Clean(t) ==
    /\ \A i \in DOMAIN t : t[i].k = "ws" => FALSE
    /\ \A i \in DOMAIN t : t[i].k = "sp" => t[i].n = 1
    /\ \A i \in 1..(Len(t) - 1) : ~(IsWs(t[i]) /\ IsWs(t[i + 1]))
    /\ t # <<>> => ~IsWs(t[1]) /\ ~IsWs(t[Len(t)])

(* C9: the text the extractor returns (app.py, app2, app3, app4) contains no  *)
(* run of two or more whitespace characters, no whitespace character other    *)
(* than a single space, and neither starts nor ends with whitespace.          *)
C9_NormalizedWhitespace ==
    \A i \in DOMAIN received : Clean(received[i])

\* a newline run inside a paragraph came out as one space
C9_Witness ==
    /\ received # <<>>
    /\ \E j \in Nodes(page) :
         /\ \E r \in DOMAIN page[j].text :
               page[j].text[r].k = "ws" /\ page[j].text[r].n >= 2
         /\ \E i \in 2..(Len(received[1]) - 1) :
               /\ received[1][i] = Run("sp", 1)
               /\ received[1][i - 1].o = j /\ received[1][i + 1].o = j

(* C10, as stated: a selector's first match is accepted only if its           *)
(* flattened, whitespace-collapsed text is longer than 500 characters, runs   *)
(* of whitespace inside a text node counting as one character.                *)
C10_Original ==
    (AfterLoop /\ block # {}) =>
        \A j \in block : StrLen(ReSubWs(Flat(j))) > 500

(* C10, amended: a selector's first match is accepted if and only if its      *)
(* flattened text (every string stripped at both ends, the strings joined by  *)
(* single spaces) is strictly longer than 500 characters: exactly 500 is      *)
(* rejected and the next selector is tried. Whitespace inside a text node     *)
(* counts in full, every character of a run.                                  *)
C10_StrictThreshold ==
    (UsesSelectors(variant) /\ pc \in {"select", "fallback"}) =>
        /\ \A i \in 1..(selIdx - 1) :
              i <= 6 => (FirstMatch(i) = 0 \/ StrLen(Flat(FirstMatch(i))) <= 500)
        /\ block # {} =>
              /\ block = {FirstMatch(selIdx)}
              /\ StrLen(Flat(FirstMatch(selIdx))) >= 501
              /\ pc = "fallback"
        /\ (block = {} /\ pc = "fallback") => selIdx = 7

\* a block of 501 characters, two of them one run of whitespace, was accepted
C10_Witness ==
    /\ AfterLoop
    /\ block # {}
    /\ \A j \in block : StrLen(Flat(j)) = 501 /\ StrLen(ReSubWs(Flat(j))) = 500

----------------------------------------------------------------------------
(* Vocabulary of the collection properties *)

\* the text of the chosen block has been collected
AfterCollect ==
    \/ pc \in {"length", "generate", "done"}
    \/ pc = "caller" /\ direct = <<>>
    \/ pc = "failed" /\ trace = <<"fetch", "extract">>

\* the elements with one of the names that are left below the chosen block,
\* in document order
TagsUnder(names) ==
    InOrder({j \in Live : page[j].tag \in names /\ IsUnder(page, j, Min(block))})

\* the flattened texts of the elements js that are not empty, the strings of one
\* element joined by sep
RECURSIVE FlatTexts(_, _)
FlatTexts(js, sep) ==
    IF js = <<>> THEN <<>>
    ELSE LET f == GetText(page, gone, Head(js), sep)
         IN  (IF f = <<>> THEN <<>> ELSE <<f>>) \o FlatTexts(Tail(js), sep)

\* the text nodes in elements with one of the names
TextIn(names) == {j \in Inside(names) : page[j].tag = "#text"}

\* paragraph, heading of every level, list item
EveryContentTag == {"p", "h1", "h2", "h3", "h4", "h5", "h6", "li"}

(* C11, as stated: in app2, app3 and app4 the returned text equals the        *)
(* single-space join, in document order, of the flattened text of every       *)
(* paragraph, heading (h1 to h6) and list-item descendant of the chosen       *)
(* block.                                                                     *)
C11_Original ==
    (variant \in {"app2", "app3", "app4"} /\ AfterCollect) =>
        text = Join(FlatTexts(TagsUnder(EveryContentTag), Space), Space)

(* C11, amended: in app2 and app3 the returned text is built only from the    *)
(* p, h1, h2, h3, h4 and li descendants of the chosen block, h5 and h6 left   *)
(* out: it is the single-space join, in document order, of each such tag's    *)
(* non-empty flattened text, with every run of whitespace then collapsed to   *)
(* one space; text of the block in no such tag never appears, and a block     *)
(* without such a tag yields empty text and the too-short error, even when    *)
(* the block holds more than 500 characters. app4 collects the p, h1, h2 and  *)
(* h3 elements of the whole document, the strings of one tag joined without   *)
(* a separator.                                                               *)
C11_CollectedTags ==
    /\ (variant \in {"app2", "app3"} /\ AfterCollect) =>
         LET names == {"p", "h1", "h2", "h3", "h4", "li"}
             tags  == TagsUnder(names)
         IN  /\ text = Strip(ReSubWs(Join(FlatTexts(tags, Space), Space)))
             /\ Origins(text) \subseteq TextIn(names)
             /\ \A j \in Origins(text) : IsUnder(page, j, Min(block))
             /\ tags = <<>> => text = <<>>
             /\ (tags = <<>> /\ AfterLengthCheck) =>
                   /\ pc = "failed"
                   /\ raised = <<Exception("ValueError", "")>>
                   /\ received = <<>>
    /\ (variant = "app4" /\ AfterCollect) =>
         LET names == {"p", "h1", "h2", "h3"}
             tags  == TagsUnder(names)
         IN  /\ block = Soup
             /\ text = Strip(ReSubWs(Join(FlatTexts(tags, <<>>), Space)))
             /\ Origins(text) \subseteq TextIn(names)
             /\ (tags = <<>> /\ AfterLengthCheck) =>
                   raised = <<Exception("ValueError", "")>>

\* a <main> of 1200 characters in an <h5> and a <div>: chosen, empty text, too short
C11_Witness ==
    /\ variant = "app2"
    /\ page = TagsInBlock("h5", C(600), "div", C(600), FALSE)
    /\ block = {1}
    /\ StrLen(Flat(1)) > 500
    /\ text = <<>>
    /\ pc = "failed"
    /\ raised = <<Exception("ValueError", "")>>

----------------------------------------------------------------------------
(* Vocabulary of the backoff properties *)

RECURSIVE Sum(_)
Sum(q) == IF q = <<>> THEN 0 ELSE Head(q) + Sum(Tail(q))

\* the server answered 503, 503, 200 and the transport returned the last response
TwiceUnavailable ==
    /\ responses = <<St(503), St(503), St(200)>>
    /\ pc \notin {"get", "transport"}

(* C12, as stated: in the configured session the wait before retry attempt    *)
(* n+1, n >= 1 the attempts already made, is 1 * 2^(n-1), so 1, 2, 4; for a   *)
(* server answering 503, 503, 200 the total wait before success is at least   *)
(* 1 + 1*2 = 3.                                                               *)
C12_Original ==
    HasRetrySession =>
        /\ \A n \in DOMAIN waits :
              responses[n].ra = 0 => waits[n] = 1 * Pow2(n - 1)
        /\ TwiceUnavailable => Sum(waits) >= 3

(* C12, amended: in the configured session (backoff_factor = 1) the wait      *)
(* before retry attempt n+1, n >= 1 the attempts already made, is 0 for       *)
(* n = 1 and 1 * 2^(n-1) for n >= 2, so 0, 2, 4, unless the failed response   *)
(* carries a Retry-After header, whose seconds are then the wait; there is    *)
(* one wait for each retry. For a server answering 503, 503, 200 the total    *)
(* wait before success is exactly 0 + 2 = 2. app.py never waits.              *)
C12_BackoffWaits ==
    /\ HasRetrySession =>
         /\ Len(waits) = (IF pc = "get" THEN Attempts ELSE Attempts - 1)
              \/ (pc = "start" /\ waits = <<>>)
         /\ \A n \in DOMAIN waits :
              waits[n] = (IF responses[n].ra > 0 THEN responses[n].ra
                          ELSE IF n = 1 THEN 0 ELSE IF n = 2 THEN 2 ELSE 4)
         /\ TwiceUnavailable => waits = <<0, 2>> /\ Sum(waits) = 2
    /\ variant = "app" => waits = <<>>

\* 503, 503, 200: the second attempt came at once, the third after 2 seconds
C12_Witness ==
    /\ variant = "app2"
    /\ responses = <<St(503), St(503), St(200)>>
    /\ pc = "parse"
    /\ waits = <<0, 2>>

----------------------------------------------------------------------------
(* Vocabulary of the status properties *)

\* session.get returned a response, the last of the attempts, to the extractor
Returned ==
    /\ responses # <<>>
    /\ pc \notin {"start", "get", "transport"}
    /\ ~IsRetry(variant, Last(responses), Attempts)

\* the body has been handed to the parser
ReachedExtraction == Len(trace) >= 2

(* C13, as stated: the body is handed to the parser and the extractor only    *)
(* when the terminal response status is in 200..299; a terminal response      *)
(* with a status outside it (1xx, an unfollowed 3xx, 4xx, 5xx) never reaches  *)
(* extraction.                                                                *)
C13_Original ==
    (pc = "parse" \/ ReachedExtraction) =>
        /\ Last(responses).err = ""
        /\ Last(responses).status \in 200..299

(* C13, what the code guarantees: the body is handed to the parser and the    *)
(* extractor if and only if the terminal response has a status outside        *)
(* 400..599, the statuses raise_for_status raises for: a terminal 4xx or 5xx, *)
(* and a transport error, never reaches extraction, but an unfollowed 3xx     *)
(* does, like a 2xx.                                                          *)
C13_NoErrorStatusExtracted ==
    /\ (pc = "parse" \/ ReachedExtraction) =>
         /\ Last(responses).err = ""
         /\ Last(responses).status \notin 400..599
    /\ (Returned /\ Last(responses).status \in 400..599) =>
         /\ pc \in {"except", "failed"}
         /\ trace = <<"fetch">>
         /\ gone = {} /\ text = <<>> /\ received = <<>>
    /\ (Returned /\ Last(responses).status \in 200..399) =>
         /\ pc \notin {"except"}
         /\ ~FetchFailure
         /\ pc = "parse" \/ ReachedExtraction

\* a 300 response was parsed, its text extracted and sent to the title backend
C13_Witness ==
    /\ variant = "app2"
    /\ responses = <<St(300)>>
    /\ pc = "done"
    /\ trace = <<"fetch", "extract", "backend">>
    /\ StrLen(forwarded[1]) >= 100

----------------------------------------------------------------------------
(* Vocabulary of the pipeline properties *)

\* the calls of pipeline() that returned a Pipeline object
Loaded == {i \in DOMAIN loads : loads[i].result = "loaded"}

\* the calls of generate_titles_from_url that reached title generation
ReachedGeneration ==
    {loads[i].call : i \in DOMAIN loads} \cup {served[i].call : i \in DOMAIN served}

\* the running call ended in its fetch or in its extraction
FailedBeforeGeneration == pc = "failed" /\ Len(trace) <= 2

(* C14: for one URLTitleGenerator and any sequence of generate_titles_from_url *)
(* calls, the pipeline is not loaded at construction nor by a call that fails  *)
(* in fetch or extraction; it is loaded on the first call that reaches title   *)
(* generation and loaded successfully at most once, every later call reusing   *)
(* the same handle; a failed load raises RuntimeError and leaves the handle    *)
(* unset, so the next call that reaches title generation loads again.          *)
C14_LazyPipeline ==
    UsesPipeline(variant) =>
        /\ calls = 0 => generator_pipeline = {} /\ loads = <<>>
        /\ (FailedBeforeGeneration \/ pc \notin {"start", "generate", "done", "failed"}) =>
              calls \notin ReachedGeneration
        /\ pc = "start" => \A c \in ReachedGeneration : c <= calls
        /\ \A i, j \in DOMAIN loads : i < j => loads[i].call < loads[j].call
        /\ Cardinality(Loaded) <= 1
        /\ generator_pipeline = Loaded
        /\ \A i \in DOMAIN loads : i < Len(loads) => loads[i].result # "loaded"
        /\ \A i \in DOMAIN served :
              /\ served[i].handle = generator_pipeline
              /\ served[i].handle # {}
              /\ \E l \in Loaded : loads[l].call <= served[i].call
        /\ (loads # <<>> /\ Last(loads).result # "loaded") => generator_pipeline = {}
        /\ (loads # <<>> /\ Last(loads).result # "loaded" /\ Last(loads).call = calls
               /\ pc # "start") =>
              /\ pc = "failed"
              /\ Len(raised) = 1 /\ raised[1].cls = "RuntimeError"
              /\ forwarded = <<>>
        /\ pc = "generate" =>
              IF generator_pipeline = {}
              THEN ENABLED LoadPipeline /\ ~ENABLED Generate
              ELSE ENABLED Generate /\ ~ENABLED LoadPipeline

\* the load failed in the first call, succeeded in the second, and the third call
\* generated its titles with the pipeline of the second
C14_Witness ==
    /\ calls = 3
    /\ pc = "done"
    /\ loads = << [call |-> 1, result |-> "OSError"], [call |-> 2, result |-> "loaded"] >>
    /\ generator_pipeline = {2}
    /\ served = << [call |-> 2, handle |-> {2}], [call |-> 3, handle |-> {2}] >>
====
